---- MODULE Spec2Model ----
(***************************************************************************)
(* Model of the broadcast chat server (chat_server.py): the client         *)
(* registry ChatServer.clients, its lock, one handle_client thread per     *)
(* accepted connection and the listener thread running ChatServer.start.   *)
(* Text is modelled as a sequence of one-character strings so that strip,  *)
(* lower and the f-string formatting are computed, not assumed.            *)
(***************************************************************************)
EXTENDS Integers, Sequences, FiniteSets, TLC

\* ------------------------------------------------------------------ bounds
\* messages the server reads in the Active loops, over all sessions, in a run
\* that starts with every session in its Active loop
MaxRead == 2
\* events of either kind in a run that starts from the constructed server
StartEvents == 1
\* peers that go away without saying so
MaxDead == 1
\* lines the user types into one run of the client
MaxTyped == 3

\* ---------------------------------------------------------------- threads
Listener == 0
\* the connections: A, B and C of the scenarios, and a fourth one that is
\* only part of the runs that start with four registered sessions
Handles == {1, 2, 3, 4}
\* the connections that arrive at the listener
Arrivals == {1, 2, 3}
Threads == Handles \cup {Listener}
NoThread == 0 - 1

\* ------------------------------------------------------------------- text
NICKNAME_REQUEST == <<"N", "I", "C", "K", "N", "A", "M", "E", "_", "R", "E", "Q", "U", "E", "S", "T">>
WelcomePre == <<"W", "e", "l", "c", "o", "m", "e", " ">>
WelcomePost == <<"!", " ", "Y", "o", "u", " ", "a", "r", "e", " ", "n", "o", "w", " ", "c", "o", "n", "n", "e", "c", "t", "e", "d", ".", " ", "T", "y", "p", "e", " ", "m", "e", "s", "s", "a", "g", "e", "s", " ", "t", "o", " ", "c", "h", "a", "t", ".">>
StarsPre == <<"*", "*", "*", " ">>
JoinPost == <<" ", "h", "a", "s", " ", "j", "o", "i", "n", "e", "d", " ", "t", "h", "e", " ", "c", "h", "a", "t", " ", "*", "*", "*">>
LeavePost == <<" ", "h", "a", "s", " ", "l", "e", "f", "t", " ", "t", "h", "e", " ", "c", "h", "a", "t", " ", "*", "*", "*">>
QuitToken == <<"/", "q", "u", "i", "t">>
UserPre == <<"U", "s", "e", "r", "_">>

alice == <<"a", "l", "i", "c", "e">>
bob == <<"b", "o", "b">>
blank == <<" ", " ">>
hello == <<"h", "e", "l", "l", "o">>
quitMixed == <<" ", "/", "Q", "u", "I", "T", " ">>

\* None, the value remove_client returns when the socket is not registered.
None == <<"None">>

UpperCase == <<"A", "B", "C", "D", "E", "F", "G", "H", "I", "J", "K", "L", "M", "N", "O", "P", "Q", "R", "S", "T", "U", "V", "W", "X", "Y", "Z">>
LowerCase == <<"a", "b", "c", "d", "e", "f", "g", "h", "i", "j", "k", "l", "m", "n", "o", "p", "q", "r", "s", "t", "u", "v", "w", "x", "y", "z">>
Whitespace == {" ", "\t", "\n", "\r"}
Digits == <<"0", "1", "2", "3", "4", "5", "6", "7", "8", "9">>

\* str.lower() on one character.
UpperSet == {UpperCase[i] : i \in 1..26}
LowerChar(c) ==
    IF c \in UpperSet
    THEN LowerCase[CHOOSE i \in 1..26 : UpperCase[i] = c]
    ELSE c

\* str.lower()
Lower(s) == [i \in 1..Len(s) |-> LowerChar(s[i])]

RECURSIVE LStrip(_)
LStrip(s) ==
    IF s # <<>> /\ Head(s) \in Whitespace THEN LStrip(Tail(s)) ELSE s

RECURSIVE RStrip(_)
RStrip(s) ==
    IF s # <<>> /\ s[Len(s)] \in Whitespace
    THEN RStrip(SubSeq(s, 1, Len(s) - 1))
    ELSE s

\* str.strip()
Strip(s) == RStrip(LStrip(s))

\* str(int) for a non-negative integer.
RECURSIVE IntToStr(_)
IntToStr(n) ==
    IF n < 10 THEN <<Digits[n + 1]>>
    ELSE IntToStr(n \div 10) \o <<Digits[(n % 10) + 1]>>

\* client_address[1], the remote port of the connection accepted as h.
BasePort == 50000
RemotePort(h) == BasePort + h

\* f"User_{client_address[1]}"
FallbackNick(h) == UserPre \o IntToStr(RemotePort(h))
\* f"Welcome {nickname}! You are now connected. Type messages to chat."
WelcomeMsg(n) == WelcomePre \o n \o WelcomePost
\* f"*** {nickname} has joined the chat ***"
JoinMsg(n) == StarsPre \o n \o JoinPost
\* f"*** {nickname} has left the chat ***"
LeaveMsg(n) == StarsPre \o n \o LeavePost
\* f"[{nickname}] {message}"
FormatMsg(n, m) == <<"[">> \o n \o <<"]", " ">> \o m

\* Bytes that are not valid UTF-8: bytes.decode('utf-8') raises on them.
BadBytes == <<"\\xff">>
Decodable(data) == data # BadBytes

\* What the peer of connection h sends as its first payload, and what a peer
\* may send afterwards.
NickInputs(h) == IF h = 1 THEN {alice} ELSE IF h = 2 THEN {bob} ELSE {blank}
ChatInputs == {hello, quitMixed, BadBytes}

\* ------------------------------------------------------------------ state
VARIABLES
    clients,    \* self.clients: the dict, in insertion order, as <<[sock, nick], ...>>
    lock,       \* self.lock: the thread that holds it, or NoThread
    pc,         \* position of every thread
    nickname,   \* handle_client's local nickname
    message,    \* handle_client's local message (line 82)
    bmsg,       \* broadcast's argument message
    bsender,    \* broadcast's argument sender_socket (NoSock for None)
    bkeys,      \* broadcast: the part of list(self.clients.keys()) still to visit
    bret,       \* where broadcast returns to
    rsock,      \* remove_client's argument client_socket
    rnick,      \* remove_client's local nickname
    rret,       \* where remove_client returns to
    rets,       \* the values remove_client has returned to each thread, in order
    closed,     \* sockets on which the server has called close()
    dead,       \* connections whose peer has gone away
    outbox,     \* per connection, the messages delivered to the peer, in order
    sdkeys,     \* start's finally: the sockets still to close
    listening,  \* server_socket is open
    quota,      \* environment events still to come: [read, dead, any]
    joined,     \* sessions that have called broadcast(join_msg, client_socket)
    client      \* one run of client.py: its two threads, terminal and socket

vars == <<clients, lock, pc, nickname, message, bmsg, bsender, bkeys, bret,
          rsock, rnick, rret, rets, closed, dead, outbox, sdkeys, listening, quota,
          joined, client>>

\* client.py once connect() has connected: the receive thread and the send
\* loop have not run yet, nothing is typed or sent, and the server's
\* NICKNAME_REQUEST (chat_server.py line 53) is on its way.
ClientStart ==
    [rpc |-> "recv", spc |-> "sleep", readline |-> "free", running |-> TRUE,
     tty |-> <<>>, typed |-> 0, net |-> <<NICKNAME_REQUEST>>, sent |-> <<>>,
     srv |-> "ask"]

\* The server's part of the state.
svars == <<clients, lock, pc, nickname, message, bmsg, bsender, bkeys, bret,
           rsock, rnick, rret, rets, closed, dead, outbox, sdkeys, listening, quota,
           joined>>

NoSock == 0

\* ------------------------------------------------------- dict operations
\* list(self.clients.keys())
Keys(c) == [i \in 1..Len(c) |-> c[i].sock]
\* client_socket in self.clients
Has(c, s) == \E i \in 1..Len(c) : c[i].sock = s
\* self.clients[client_socket]
Get(c, s) == c[CHOOSE i \in 1..Len(c) : c[i].sock = s].nick
\* self.clients[client_socket] = nickname
DictSet(c, s, n) ==
    IF Has(c, s)
    THEN [i \in 1..Len(c) |-> IF c[i].sock = s THEN [sock |-> s, nick |-> n] ELSE c[i]]
    ELSE Append(c, [sock |-> s, nick |-> n])
\* del self.clients[client_socket]
DictDel(c, s) == SelectSeq(c, LAMBDA r : r.sock # s)

Registered == {clients[i].sock : i \in 1..Len(clients)}

\* ------------------------------------------------------------- sockets
\* socket.send on connection h: it can return normally unless the server has
\* closed the socket, and it can raise when the socket is closed or the peer
\* has gone away (a write to a half-closed connection may still be accepted).
SendMayReturn(h) == ~closed[h]
SendMayRaise(h) == closed[h] \/ dead[h]
Delivered(h, m) == IF dead[h] THEN outbox ELSE [outbox EXCEPT ![h] = Append(@, m)]

\* The process is alive: handle_client threads are daemon threads, they end
\* when start() returns.
Running == pc[Listener] # "done"

\* The server as ChatServer() constructs it and start() binds it: an empty
\* registry, a free lock, the listener in accept, no connection yet.
Constructed ==
    /\ clients = <<>>
    /\ lock = NoThread
    /\ pc = [t \in Threads |-> IF t = Listener THEN "accept" ELSE "idle"]
    /\ nickname = [t \in Handles |-> <<>>]
    /\ message = [t \in Handles |-> <<>>]
    /\ bmsg = [t \in Handles |-> <<>>]
    /\ bsender = [t \in Handles |-> NoSock]
    /\ bkeys = [t \in Handles |-> <<>>]
    /\ bret = [t \in Handles |-> ""]
    /\ rsock = [t \in Handles |-> NoSock]
    /\ rnick = [t \in Handles |-> None]
    /\ rret = [t \in Handles |-> ""]
    /\ rets = [t \in Handles |-> <<>>]
    /\ closed = [h \in Handles |-> FALSE]
    /\ dead = [h \in Handles |-> FALSE]
    /\ outbox = [h \in Handles |-> <<>>]
    /\ sdkeys = <<>>
    /\ listening = TRUE
    /\ joined = {}
    /\ client = ClientStart

Init ==
    /\ Constructed
    /\ quota = [read |-> StartEvents, dead |-> StartEvents, any |-> StartEvents]

\* ------------------------------------------------- handle_client: calls
\* The finally clause: nickname = self.remove_client(client_socket)
EnterFinally(t) ==
    /\ pc' = [pc EXCEPT ![t] = "rc_lock"]
    /\ rsock' = [rsock EXCEPT ![t] = t]
    /\ rret' = [rret EXCEPT ![t] = "finally"]

\* self.broadcast(msg, sender) called from handle_client, returning to ret
CallBroadcast(t, msg, sender, ret) ==
    /\ pc' = [pc EXCEPT ![t] = "bc_lock"]
    /\ bmsg' = [bmsg EXCEPT ![t] = msg]
    /\ bsender' = [bsender EXCEPT ![t] = sender]
    /\ bret' = [bret EXCEPT ![t] = ret]

\* client_socket.send("NICKNAME_REQUEST".encode('utf-8'))
SendNickRequest(t) ==
    /\ Running /\ pc[t] = "nickreq"
    /\ \/ /\ SendMayReturn(t)
          /\ outbox' = Delivered(t, NICKNAME_REQUEST)
          /\ pc' = [pc EXCEPT ![t] = "nickrecv"]
          /\ UNCHANGED <<rsock, rret>>
       \/ /\ SendMayRaise(t)
          /\ EnterFinally(t)
          /\ UNCHANGED outbox
    /\ UNCHANGED <<clients, lock, nickname, message, bmsg, bsender, bkeys, bret,
                   rnick, rets, closed, dead, sdkeys, listening, quota>>
    /\ UNCHANGED <<joined, client>>

\* nickname = data as it is stripped, with no fallback for a blank one.
NickFromNoFallback(t, data) == Strip(data)

\* nickname = client_socket.recv(1024).decode('utf-8').strip()
\* if not nickname: nickname = f"User_{client_address[1]}"
NickFrom(t, data) == IF Strip(data) = <<>> THEN FallbackNick(t) ELSE Strip(data)

RecvNickname(t) ==
    /\ Running /\ pc[t] = "nickrecv"
    /\ \/ \* the peer sent its nickname
          /\ ~dead[t] /\ ~closed[t]
          /\ \E data \in NickInputs(t) :
                nickname' = [nickname EXCEPT ![t] = NickFrom(t, data)]
          /\ pc' = [pc EXCEPT ![t] = "reg_lock"]
          /\ UNCHANGED <<rsock, rret>>
       \/ \* the peer closed the connection: recv returns b''
          /\ dead[t] /\ ~closed[t]
          /\ nickname' = [nickname EXCEPT ![t] = NickFrom(t, <<>>)]
          /\ pc' = [pc EXCEPT ![t] = "reg_lock"]
          /\ UNCHANGED <<rsock, rret>>
       \/ \* recv raises: connection reset, or the socket has been closed
          /\ dead[t] \/ closed[t]
          /\ EnterFinally(t)
          /\ UNCHANGED nickname
    /\ UNCHANGED <<clients, lock, message, bmsg, bsender, bkeys, bret,
                   rnick, rets, closed, dead, outbox, sdkeys, listening, quota>>
    /\ UNCHANGED <<joined, client>>

\* with self.lock:  (entering the block of line 61)
RegisterAcquire(t) ==
    /\ Running /\ pc[t] = "reg_lock"
    /\ lock = NoThread
    /\ lock' = t
    /\ pc' = [pc EXCEPT ![t] = "reg"]
    /\ UNCHANGED <<clients, nickname, message, bmsg, bsender, bkeys, bret, rsock,
                   rnick, rret, rets, closed, dead, outbox, sdkeys, listening, quota>>
    /\ UNCHANGED <<joined, client>>

\* The mutant of RegisterInsert: the dict is rebuilt from the new entry alone.
RegisterInsertLost(c, t, n) == <<[sock |-> t, nick |-> n]>>

\* self.clients[client_socket] = nickname, and the lock is released
RegisterInsert(c, t, n) == DictSet(c, t, n)

Register(t) ==
    /\ Running /\ pc[t] = "reg"
    /\ clients' = RegisterInsert(clients, t, nickname[t])
    /\ lock' = NoThread
    /\ pc' = [pc EXCEPT ![t] = "welcome"]
    /\ UNCHANGED <<nickname, message, bmsg, bsender, bkeys, bret, rsock,
                   rnick, rret, rets, closed, dead, outbox, sdkeys, listening, quota>>
    /\ UNCHANGED <<joined, client>>

\* client_socket.send(welcome_msg...); self.broadcast(join_msg, client_socket)
SendWelcome(t) ==
    /\ Running /\ pc[t] = "welcome"
    /\ \/ /\ SendMayReturn(t)
          /\ outbox' = Delivered(t, WelcomeMsg(nickname[t]))
          /\ CallBroadcast(t, JoinMsg(nickname[t]), t, "recv")
          /\ joined' = joined \cup {t}
          /\ UNCHANGED <<rsock, rret>>
       \/ /\ SendMayRaise(t)
          /\ EnterFinally(t)
          /\ UNCHANGED <<outbox, bmsg, bsender, bret, joined>>
    /\ UNCHANGED <<clients, lock, nickname, message, bkeys,
                   rnick, rets, closed, dead, sdkeys, listening, quota>>
    /\ UNCHANGED client

\* The mutant of IsQuit: the comparison without lower().
IsQuitExact(m) == m = QuitToken

\* message.lower() == '/quit'
IsQuit(m) == Lower(m) = QuitToken

\* The while True loop body, lines 76-89.
RecvMessage(t) ==
    /\ Running /\ pc[t] = "recv"
    /\ \/ \* data arrives: a chat line, the quit token, or undecodable bytes
          /\ ~dead[t] /\ ~closed[t]
          /\ quota.read > 0 /\ quota.any > 0
          /\ quota' = [quota EXCEPT !.read = @ - 1, !.any = @ - 1]
          /\ \E data \in ChatInputs :
                IF ~Decodable(data)
                THEN /\ EnterFinally(t)
                     /\ UNCHANGED <<message, bmsg, bsender, bret>>
                ELSE LET m == Strip(data) IN
                     /\ message' = [message EXCEPT ![t] = m]
                     /\ IF IsQuit(m)
                        THEN /\ EnterFinally(t)
                             /\ UNCHANGED <<bmsg, bsender, bret>>
                        ELSE /\ CallBroadcast(t, FormatMsg(nickname[t], m), t, "recv")
                             /\ UNCHANGED <<rsock, rret>>
       \/ \* if not data: break
          /\ dead[t] /\ ~closed[t]
          /\ EnterFinally(t)
          /\ UNCHANGED <<message, bmsg, bsender, bret, quota>>
       \/ \* recv raises: connection reset, or the socket has been closed
          /\ dead[t] \/ closed[t]
          /\ EnterFinally(t)
          /\ UNCHANGED <<message, bmsg, bsender, bret, quota>>
    /\ UNCHANGED <<clients, lock, nickname, bkeys, rnick, rets, closed, dead,
                   outbox, sdkeys, listening>>
    /\ UNCHANGED <<joined, client>>

\* ------------------------------------------------------------ broadcast
\* The mutant of BroadcastMayEnter: broadcast runs its loop without waiting
\* for the lock.
BroadcastUnlocked(l) == TRUE

\* with self.lock:   (line 25) is entered once no thread holds the lock l
BroadcastMayEnter(l) == l = NoThread

\* with self.lock: ... for client_socket in list(self.clients.keys()):
BroadcastAcquire(t) ==
    /\ Running /\ pc[t] = "bc_lock"
    /\ BroadcastMayEnter(lock)
    /\ lock' = t
    /\ bkeys' = [bkeys EXCEPT ![t] = Keys(clients)]
    /\ pc' = [pc EXCEPT ![t] = "bc_loop"]
    /\ UNCHANGED <<clients, nickname, message, bmsg, bsender, bret, rsock,
                   rnick, rret, rets, closed, dead, outbox, sdkeys, listening, quota>>
    /\ UNCHANGED <<joined, client>>

\* if client_socket != sender_socket
IsRecipient(s, sender) == s # sender

\* the loop visits the sender's own socket and passes over it
BroadcastSkip(t) ==
    /\ Running /\ pc[t] = "bc_loop"
    /\ bkeys[t] # <<>>
    /\ ~IsRecipient(Head(bkeys[t]), bsender[t])
    /\ bkeys' = [bkeys EXCEPT ![t] = Tail(@)]
    /\ UNCHANGED <<clients, lock, pc, nickname, message, bmsg, bsender, bret, rsock,
                   rnick, rret, rets, closed, dead, outbox, sdkeys, listening, quota>>
    /\ UNCHANGED <<joined, client>>

\* try: client_socket.send(message...)  except: self.remove_client(client_socket)
BroadcastSend(t) ==
    /\ Running /\ pc[t] = "bc_loop"
    /\ bkeys[t] # <<>>
    /\ IsRecipient(Head(bkeys[t]), bsender[t])
    /\ LET h == Head(bkeys[t]) IN
       \/ /\ SendMayReturn(h)
          /\ outbox' = Delivered(h, bmsg[t])
          /\ UNCHANGED <<pc, rsock, rret>>
       \/ /\ SendMayRaise(h)
          /\ pc' = [pc EXCEPT ![t] = "rc_lock"]
          /\ rsock' = [rsock EXCEPT ![t] = h]
          /\ rret' = [rret EXCEPT ![t] = "bc_loop"]
          /\ UNCHANGED outbox
    /\ bkeys' = [bkeys EXCEPT ![t] = Tail(@)]
    /\ UNCHANGED <<clients, lock, nickname, message, bmsg, bsender, bret,
                   rnick, rets, closed, dead, sdkeys, listening, quota>>
    /\ UNCHANGED <<joined, client>>

\* the loop is over: the with block releases the lock and broadcast returns
BroadcastReturn(t) ==
    /\ Running /\ pc[t] = "bc_loop"
    /\ bkeys[t] = <<>>
    /\ lock' = NoThread
    /\ pc' = [pc EXCEPT ![t] = bret[t]]
    /\ bmsg' = [bmsg EXCEPT ![t] = <<>>]
    /\ bsender' = [bsender EXCEPT ![t] = NoSock]
    /\ bret' = [bret EXCEPT ![t] = ""]
    /\ UNCHANGED <<clients, nickname, message, bkeys, rsock,
                   rnick, rret, rets, closed, dead, outbox, sdkeys, listening, quota>>
    /\ UNCHANGED <<joined, client>>

\* -------------------------------------------------------- remove_client
\* with self.lock:   threading.Lock is not reentrant: the thread waits until
\* the lock is free, also when it is the holder itself.
RemoveAcquire(t) ==
    /\ Running /\ pc[t] = "rc_lock"
    /\ lock = NoThread
    /\ lock' = t
    /\ pc' = [pc EXCEPT ![t] = "rc_body"]
    /\ UNCHANGED <<clients, nickname, message, bmsg, bsender, bkeys, bret, rsock,
                   rnick, rret, rets, closed, dead, outbox, sdkeys, listening, quota>>
    /\ UNCHANGED <<joined, client>>

\* What the caller does with the value remove_client returned.
\*   "finally":  if nickname: self.broadcast(leave_msg)   (lines 97-100)
\*   "bc_loop":  the except clause of broadcast ends, the loop goes on
\*   "again":    a caller that calls remove_client a second time
\*   "stop":     that caller, after its second call
\* The mutant of LeaveWanted: the leave notice is broadcast whatever
\* remove_client returned.
LeaveAlways(result) == TRUE

\* if nickname:   (line 97; None and '' are both false)
LeaveWanted(result) == result # None /\ result # <<>>

ReturnFromRemove(t, result) ==
    /\ rets' = [rets EXCEPT ![t] = Append(@, result)]
    /\ rnick' = [rnick EXCEPT ![t] = None]
    /\ CASE rret[t] = "finally" ->
              /\ IF LeaveWanted(result)
                 THEN CallBroadcast(t, LeaveMsg(result), NoSock, "done")
                 ELSE /\ pc' = [pc EXCEPT ![t] = "done"]
                      /\ UNCHANGED <<bmsg, bsender, bret>>
              /\ rsock' = [rsock EXCEPT ![t] = NoSock]
              /\ rret' = [rret EXCEPT ![t] = ""]
         [] rret[t] = "bc_loop" ->
              /\ pc' = [pc EXCEPT ![t] = "bc_loop"]
              /\ rsock' = [rsock EXCEPT ![t] = NoSock]
              /\ rret' = [rret EXCEPT ![t] = ""]
              /\ UNCHANGED <<bmsg, bsender, bret>>
         [] rret[t] = "again" ->
              /\ pc' = [pc EXCEPT ![t] = "rc_lock"]
              /\ rret' = [rret EXCEPT ![t] = "stop"]
              /\ UNCHANGED <<rsock, bmsg, bsender, bret>>
         [] OTHER ->
              /\ pc' = [pc EXCEPT ![t] = "done"]
              /\ UNCHANGED <<rsock, rret, bmsg, bsender, bret>>

\* The mutant of RemoveEntry: the entry is not deleted.
RemoveEntryKeep(c, s) == c

\* del self.clients[client_socket]
RemoveEntry(c, s) == DictDel(c, s)

\* if client_socket in self.clients: nickname = ...; del ...   else: return None
RemoveBody(t) ==
    /\ Running /\ pc[t] = "rc_body"
    /\ IF Has(clients, rsock[t])
       THEN /\ rnick' = [rnick EXCEPT ![t] = Get(clients, rsock[t])]
            /\ clients' = RemoveEntry(clients, rsock[t])
            /\ pc' = [pc EXCEPT ![t] = "rc_close"]
            /\ UNCHANGED <<lock, rsock, rret, rets, bmsg, bsender, bret>>
       ELSE /\ lock' = NoThread
            /\ ReturnFromRemove(t, None)
            /\ UNCHANGED clients
    /\ UNCHANGED <<nickname, message, bkeys, closed, dead, outbox, sdkeys,
                   listening, quota>>
    /\ UNCHANGED <<joined, client>>

\* client_socket.close(); return nickname   (the with block releases the lock)
RemoveClose(t) ==
    /\ Running /\ pc[t] = "rc_close"
    /\ closed' = [closed EXCEPT ![rsock[t]] = TRUE]
    /\ lock' = NoThread
    /\ ReturnFromRemove(t, rnick[t])
    /\ UNCHANGED <<clients, nickname, message, bkeys, dead, outbox, sdkeys,
                   listening, quota>>
    /\ UNCHANGED <<joined, client>>

\* ------------------------------------------------------------- listener
\* The mutant of AcceptReady: the session is handled in the accept loop
\* itself, so the next accept waits for the end of the sessions before it.
AcceptSerial(h) ==
    /\ pc[Listener] = "accept"
    /\ h \in Arrivals
    /\ pc[h] = "idle"
    /\ \A g \in Handles : g < h => pc[g] = "done"

\* The accept loop is at self.server_socket.accept() and connection h is the
\* next to arrive: the thread of the connection before it has been started
\* (lines 125-127) and the loop has come back to accept.
AcceptReady(h) ==
    /\ pc[Listener] = "accept"
    /\ h \in Arrivals
    /\ pc[h] = "idle"
    /\ \A g \in Handles : g < h => pc[g] # "idle"

\* client_socket, client_address = self.server_socket.accept(); thread.start()
\* Connections are numbered in the order they are accepted.
Accept(h) ==
    /\ AcceptReady(h)
    /\ pc' = [pc EXCEPT ![h] = "nickreq"]
    /\ UNCHANGED <<clients, lock, nickname, message, bmsg, bsender, bkeys, bret,
                   rsock, rnick, rret, rets, closed, dead, outbox, sdkeys,
                   listening, quota>>
    /\ UNCHANGED <<joined, client>>

\* KeyboardInterrupt or OSError ends the accept loop
Interrupt ==
    /\ pc[Listener] = "accept"
    /\ pc' = [pc EXCEPT ![Listener] = "sd_lock"]
    /\ UNCHANGED <<clients, lock, nickname, message, bmsg, bsender, bkeys, bret,
                   rsock, rnick, rret, rets, closed, dead, outbox, sdkeys,
                   listening, quota>>
    /\ UNCHANGED <<joined, client>>

\* finally: with self.lock: for client_socket in list(self.clients.keys()):
ShutdownAcquire ==
    /\ pc[Listener] = "sd_lock"
    /\ lock = NoThread
    /\ lock' = Listener
    /\ sdkeys' = Keys(clients)
    /\ pc' = [pc EXCEPT ![Listener] = "sd_loop"]
    /\ UNCHANGED <<clients, nickname, message, bmsg, bsender, bkeys, bret,
                   rsock, rnick, rret, rets, closed, dead, outbox, listening, quota>>
    /\ UNCHANGED <<joined, client>>

\* client_socket.close()
ShutdownClose ==
    /\ pc[Listener] = "sd_loop"
    /\ sdkeys # <<>>
    /\ closed' = [closed EXCEPT ![Head(sdkeys)] = TRUE]
    /\ sdkeys' = Tail(sdkeys)
    /\ UNCHANGED <<clients, lock, pc, nickname, message, bmsg, bsender, bkeys, bret,
                   rsock, rnick, rret, rets, dead, outbox, listening, quota>>
    /\ UNCHANGED <<joined, client>>

\* the with block ends
ShutdownRelease ==
    /\ pc[Listener] = "sd_loop"
    /\ sdkeys = <<>>
    /\ lock' = NoThread
    /\ pc' = [pc EXCEPT ![Listener] = "sd_sock"]
    /\ UNCHANGED <<clients, nickname, message, bmsg, bsender, bkeys, bret,
                   rsock, rnick, rret, rets, closed, dead, outbox, sdkeys,
                   listening, quota>>
    /\ UNCHANGED <<joined, client>>

\* self.server_socket.close(); start() returns and the process ends
CloseServerSocket ==
    /\ pc[Listener] = "sd_sock"
    /\ listening' = FALSE
    /\ pc' = [pc EXCEPT ![Listener] = "done"]
    /\ UNCHANGED <<clients, lock, nickname, message, bmsg, bsender, bkeys, bret,
                   rsock, rnick, rret, rets, closed, dead, outbox, sdkeys, quota>>
    /\ UNCHANGED <<joined, client>>

\* ---------------------------------------------------------- environment
\* The peer of connection h goes away (closes, crashes, is reset).
PeerDies(h) ==
    /\ Running
    /\ pc[h] \notin {"idle", "done"}
    /\ ~dead[h]
    /\ quota.dead > 0 /\ quota.any > 0
    /\ quota' = [quota EXCEPT !.dead = @ - 1, !.any = @ - 1]
    /\ dead' = [dead EXCEPT ![h] = TRUE]
    /\ UNCHANGED <<clients, lock, pc, nickname, message, bmsg, bsender, bkeys, bret,
                   rsock, rnick, rret, rets, closed, outbox, sdkeys, listening>>
    /\ UNCHANGED <<joined, client>>

\* ------------------------------------------------------- specification
HandshakeStep(t) ==
    \/ SendNickRequest(t)
    \/ RecvNickname(t)
    \/ RegisterAcquire(t)
    \/ Register(t)
    \/ SendWelcome(t)

ActiveStep(t) ==
    \/ RecvMessage(t)
    \/ BroadcastAcquire(t)
    \/ BroadcastSkip(t)
    \/ BroadcastSend(t)
    \/ BroadcastReturn(t)
    \/ RemoveAcquire(t)
    \/ RemoveBody(t)
    \/ RemoveClose(t)

ShutdownStep ==
    \/ Interrupt
    \/ ShutdownAcquire
    \/ ShutdownClose
    \/ ShutdownRelease
    \/ CloseServerSocket

\* The server from its construction, while the operator lets it run.
Next ==
    \/ \E h \in Handles : Accept(h)
    \/ \E t \in Handles : HandshakeStep(t)
    \/ \E t \in Handles : ActiveStep(t)
    \/ \E h \in Handles : PeerDies(h)

Spec == Init /\ [][Next]_vars

\* The same server with clients that connect, give their nickname and may go
\* away, and none of which sends a chat message.
InitConnect ==
    /\ Constructed
    /\ quota = [read |-> 0, dead |-> MaxDead, any |-> MaxDead]

SpecConnect == InitConnect /\ [][Next]_vars

\* The same server with clients that connect, give their nickname, chat and
\* quit, and none of which goes away without saying so.
InitTalk ==
    /\ Constructed
    /\ quota = [read |-> StartEvents, dead |-> 0, any |-> StartEvents]

NextTalk ==
    \/ \E h \in Handles : Accept(h)
    \/ \E t \in Handles : HandshakeStep(t)
    \/ \E t \in Handles : ActiveStep(t)

SpecTalk == InitTalk /\ [][NextTalk]_vars

\* The server with every connection accepted and every handshake over, the
\* handshakes having run one after the other in some order; the operator may
\* interrupt it.
Permutations3 ==
    {p \in [1..3 -> Arrivals] : \A i, j \in 1..3 : i # j => p[i] # p[j]}

JoinsAfter(p, nk, i) ==
    [j \in 1..(3 - i) |-> JoinMsg(nk[p[i + j]])]

InitChat ==
    \E p \in Permutations3 :
    \E nk \in [Arrivals -> UNION {{NickFrom(h, d) : d \in NickInputs(h)} : h \in Arrivals}] :
        /\ \A h \in Arrivals : \E d \in NickInputs(h) : nk[h] = NickFrom(h, d)
        /\ clients = [i \in 1..3 |-> [sock |-> p[i], nick |-> nk[p[i]]]]
        /\ lock = NoThread
        /\ pc = [t \in Threads |-> IF t = Listener THEN "accept"
                                   ELSE IF t \in Arrivals THEN "recv" ELSE "idle"]
        /\ nickname = [h \in Handles |-> IF h \in Arrivals THEN nk[h] ELSE <<>>]
        /\ message = [t \in Handles |-> <<>>]
        /\ bmsg = [t \in Handles |-> <<>>]
        /\ bsender = [t \in Handles |-> NoSock]
        /\ bkeys = [t \in Handles |-> <<>>]
        /\ bret = [t \in Handles |-> ""]
        /\ rsock = [t \in Handles |-> NoSock]
        /\ rnick = [t \in Handles |-> None]
        /\ rret = [t \in Handles |-> ""]
        /\ rets = [t \in Handles |-> <<>>]
        /\ closed = [h \in Handles |-> FALSE]
        /\ dead = [h \in Handles |-> FALSE]
        /\ outbox = [h \in Handles |->
                IF h \notin Arrivals THEN <<>> ELSE
                LET i == CHOOSE k \in 1..3 : p[k] = h IN
                <<NICKNAME_REQUEST, WelcomeMsg(nk[h])>> \o JoinsAfter(p, nk, i)]
        /\ sdkeys = <<>>
        /\ listening = TRUE
        /\ quota = [read |-> MaxRead, dead |-> MaxDead, any |-> MaxRead + MaxDead]
        /\ joined = Arrivals
        /\ client = ClientStart

NextChat ==
    \/ \E t \in Handles : ActiveStep(t)
    \/ ShutdownStep
    \/ \E h \in Handles : PeerDies(h)

SpecChat == InitChat /\ [][NextChat]_vars

\* The same, with the server left running and its threads scheduled fairly: a
\* thread that can take a step takes it; a recv returns once the peer is gone.
NextServe ==
    \/ \E t \in Handles : ActiveStep(t)
    \/ \E h \in Handles : PeerDies(h)

ThreadStep(t) ==
    \/ BroadcastAcquire(t)
    \/ BroadcastSkip(t)
    \/ BroadcastSend(t)
    \/ BroadcastReturn(t)
    \/ RemoveAcquire(t)
    \/ RemoveBody(t)
    \/ RemoveClose(t)
    \/ (dead[t] /\ RecvMessage(t))

SpecServe == InitChat /\ [][NextServe]_vars

FairSpecChat == SpecServe /\ \A t \in Handles : WF_vars(ThreadStep(t))

\* The finally block of start(): once the accept loop is left the main thread
\* runs it to its end whenever it can take a step.
ListenerStep ==
    \/ ShutdownAcquire
    \/ ShutdownClose
    \/ ShutdownRelease
    \/ CloseServerSocket

\* SpecChat with the session threads and the main thread scheduled fairly.
FairSpecShutdown ==
    /\ SpecChat
    /\ \A t \in Handles : WF_vars(ThreadStep(t))
    /\ WF_vars(ListenerStep)

\* ------------------------------------------------------------- client.py
\* One run of client.py against the server: the receive thread (rpc), the send
\* loop in the main thread (spc), the terminal both read with input() (tty:
\* lines typed and not yet read; readline: the thread inside input(), which
\* holds the terminal until a line arrives), the inbound stream (net), the
\* payloads sent (sent) and the server's side of the connection (srv).
Anonymous == <<"A", "n", "o", "n", "y", "m", "o", "u", "s">>
ClientLines == {alice, blank, hello, QuitToken}
ClientUp == client.spc # "exit"
ClientSend(by, text) == Append(client.sent, [by |-> by, text |-> text])

\* The user types a line and presses Enter.
UserTypes(l) ==
    /\ ClientUp
    /\ client.typed < MaxTyped
    /\ client' = [client EXCEPT !.tty = Append(@, l), !.typed = @ + 1]
    /\ UNCHANGED svars

\* while self.running: data = self.client_socket.recv(1024) ...   (lines 26-46)
ClientRecv ==
    /\ ClientUp /\ client.rpc = "recv"
    /\ IF ~client.running
       THEN client' = [client EXCEPT !.rpc = "done"]
       ELSE /\ client.net # <<>>
            /\ LET data == Head(client.net) IN
               IF data = <<>>
               THEN client' = [client EXCEPT !.net = Tail(@), !.running = FALSE,
                                             !.rpc = "done"]
               ELSE IF data = NICKNAME_REQUEST
               THEN client' = [client EXCEPT !.net = Tail(@), !.rpc = "ask"]
               ELSE client' = [client EXCEPT !.net = Tail(@)]
    /\ UNCHANGED svars

\* input("Enter your nickname: ") is entered: the receive thread takes the
\* terminal once no other input() call holds it.
ClientAskNick ==
    /\ ClientUp /\ client.rpc = "ask"
    /\ client.readline = "free"
    /\ client' = [client EXCEPT !.readline = "R", !.rpc = "input"]
    /\ UNCHANGED svars

\* nickname = input(...).strip(); if not nickname: nickname = "Anonymous";
\* self.client_socket.send(nickname.encode('utf-8'))
ClientNick ==
    /\ ClientUp /\ client.rpc = "input"
    /\ client.tty # <<>>
    /\ LET line == Strip(Head(client.tty))
           nick == IF line = <<>> THEN Anonymous ELSE line IN
       client' = [client EXCEPT !.tty = Tail(@), !.readline = "free",
                                !.sent = ClientSend("R", nick), !.rpc = "recv"]
    /\ UNCHANGED svars

\* time.sleep(0.5) returns
ClientWake ==
    /\ ClientUp /\ client.spc = "sleep"
    /\ client' = [client EXCEPT !.spc = "top"]
    /\ UNCHANGED svars

\* while self.running: message = input("You: ") is entered
ClientPrompt ==
    /\ ClientUp /\ client.spc = "top"
    /\ IF ~client.running
       THEN client' = [client EXCEPT !.spc = "done"]
       ELSE /\ client.readline = "free"
            /\ client' = [client EXCEPT !.readline = "S", !.spc = "input"]
    /\ UNCHANGED svars

\* input("You: ") returns a line   (lines 79-93)
ClientInput ==
    /\ ClientUp /\ client.spc = "input"
    /\ client.tty # <<>>
    /\ LET msg == Head(client.tty) IN
       IF ~client.running
       THEN client' = [client EXCEPT !.tty = Tail(@), !.readline = "free",
                                     !.spc = "done"]
       ELSE IF Lower(msg) = QuitToken
       THEN client' = [client EXCEPT !.tty = Tail(@), !.readline = "free",
                                     !.sent = ClientSend("S", msg),
                                     !.running = FALSE, !.spc = "done"]
       ELSE IF msg # <<>>
       THEN client' = [client EXCEPT !.tty = Tail(@), !.readline = "free",
                                     !.sent = ClientSend("S", msg), !.spc = "top"]
       ELSE client' = [client EXCEPT !.tty = Tail(@), !.readline = "free",
                                     !.spc = "top"]
    /\ UNCHANGED svars

\* finally: self.running = False; self.client_socket.close(); the process ends
\* and takes the daemon receive thread with it
ClientExit ==
    /\ client.spc = "done"
    /\ client' = [client EXCEPT !.running = FALSE, !.spc = "exit"]
    /\ UNCHANGED svars

\* The server takes the first payload as the nickname and answers with the
\* welcome line (chat_server.py lines 55-66).
ServerWelcome ==
    /\ ClientUp /\ client.srv = "ask"
    /\ client.sent # <<>>
    /\ client' = [client EXCEPT !.srv = "greeted",
                    !.net = Append(@, WelcomeMsg(NickFrom(1, client.sent[1].text)))]
    /\ UNCHANGED svars

\* The server reads '/quit' and closes the connection: the client's recv
\* returns b''.
ServerCloses ==
    /\ ClientUp /\ client.srv = "greeted"
    /\ \E i \in 2..Len(client.sent) : IsQuit(Strip(client.sent[i].text))
    /\ client' = [client EXCEPT !.srv = "closed", !.net = Append(@, <<>>)]
    /\ UNCHANGED svars

NextClient ==
    \/ \E l \in ClientLines : UserTypes(l)
    \/ ClientRecv
    \/ ClientAskNick
    \/ ClientNick
    \/ ClientWake
    \/ ClientPrompt
    \/ ClientInput
    \/ ClientExit
    \/ ServerWelcome
    \/ ServerCloses

SpecClient == Init /\ [][NextClient]_vars

\* Four sessions in their Active loops, registered by four handshakes that ran
\* one after the other in the order of the handles or in the opposite order;
\* every peer stays connected and the sessions read MaxRead messages in all.
FanOrders == {<<1, 2, 3, 4>>, <<4, 3, 2, 1>>}
FanNick(h) == NickFrom(h, CHOOSE d \in NickInputs(h) : TRUE)
InitFan ==
    \E p \in FanOrders :
        /\ clients = [i \in 1..4 |-> [sock |-> p[i], nick |-> FanNick(p[i])]]
        /\ lock = NoThread
        /\ pc = [t \in Threads |-> IF t = Listener THEN "accept" ELSE "recv"]
        /\ nickname = [h \in Handles |-> FanNick(h)]
        /\ message = [t \in Handles |-> <<>>]
        /\ bmsg = [t \in Handles |-> <<>>]
        /\ bsender = [t \in Handles |-> NoSock]
        /\ bkeys = [t \in Handles |-> <<>>]
        /\ bret = [t \in Handles |-> ""]
        /\ rsock = [t \in Handles |-> NoSock]
        /\ rnick = [t \in Handles |-> None]
        /\ rret = [t \in Handles |-> ""]
        /\ rets = [t \in Handles |-> <<>>]
        /\ closed = [h \in Handles |-> FALSE]
        /\ dead = [h \in Handles |-> FALSE]
        /\ outbox = [h \in Handles |->
                LET i == CHOOSE k \in 1..4 : p[k] = h IN
                <<NICKNAME_REQUEST, WelcomeMsg(FanNick(h))>>
                    \o [j \in 1..(4 - i) |-> JoinMsg(FanNick(p[i + j]))]]
        /\ sdkeys = <<>>
        /\ listening = TRUE
        /\ quota = [read |-> MaxRead, dead |-> 0, any |-> MaxRead]
        /\ joined = Handles
        /\ client = ClientStart

NextFan == \E t \in Handles : ActiveStep(t)

SpecFan == InitFan /\ [][NextFan]_vars

TypeOK ==
    /\ lock \in Threads \cup {NoThread}
    /\ Registered \subseteq Handles
    /\ quota.read >= 0 /\ quota.dead >= 0

\* Two successive calls of remove_client on one socket, by a thread that does
\* not hold the lock, on any registry: the registered sockets are those whose
\* handshake gave them a nickname.
Registries ==
    {c \in UNION {[1..n -> Arrivals] : n \in 0..3} :
        \A i, j \in 1..Len(c) : i # j => c[i] # c[j]}

InitRemove ==
    \E order \in Registries :
    \E nk \in [Arrivals -> {alice, bob}] :
    \E caller \in Arrivals :
    \E s \in Arrivals :
        LET reg == {order[i] : i \in 1..Len(order)} IN
        /\ nickname = [h \in Handles |-> IF h \in reg THEN nk[h] ELSE <<>>]
        /\ clients = [i \in 1..Len(order) |-> [sock |-> order[i], nick |-> nk[order[i]]]]
        /\ lock = NoThread
        /\ pc = [t \in Threads |-> IF t = Listener THEN "accept"
                                   ELSE IF t = caller THEN "rc_lock" ELSE "idle"]
        /\ rsock = [t \in Handles |-> IF t = caller THEN s ELSE NoSock]
        /\ rret = [t \in Handles |-> IF t = caller THEN "again" ELSE ""]
        /\ message = [t \in Handles |-> <<>>]
        /\ bmsg = [t \in Handles |-> <<>>]
        /\ bsender = [t \in Handles |-> NoSock]
        /\ bkeys = [t \in Handles |-> <<>>]
        /\ bret = [t \in Handles |-> ""]
        /\ rnick = [t \in Handles |-> None]
        /\ rets = [t \in Handles |-> <<>>]
        /\ closed = [h \in Handles |-> FALSE]
        /\ dead = [h \in Handles |-> FALSE]
        /\ outbox = [h \in Handles |-> <<>>]
        /\ sdkeys = <<>>
        /\ listening = TRUE
        /\ quota = [read |-> 0, dead |-> 0, any |-> 0]
        /\ joined = reg
        /\ client = ClientStart

NextRemove ==
    \/ \E t \in Handles : RemoveAcquire(t)
    \/ \E t \in Handles : RemoveBody(t)
    \/ \E t \in Handles : RemoveClose(t)

SpecRemove == InitRemove /\ [][NextRemove]_vars

\* ------------------------------------------------------------------ claims
Range(q) == {q[i] : i \in 1..Len(q)}
Closing(t) == rret[t] = "finally" \/ bret[t] = "done" \/ (t \in Handles /\ pc[t] = "done")
Alive(h) == ~dead[h] /\ ~closed[h]

\* C3: network I/O never occurs while the registry lock is held: no thread
\* that holds self.lock is at a socket send or close.
AtSocketCall(t) ==
    IF t = Listener
    THEN pc[t] = "sd_loop" /\ sdkeys # <<>>
    ELSE \/ pc[t] = "rc_close"
         \/ pc[t] = "bc_loop" /\ bkeys[t] # <<>> /\ Head(bkeys[t]) # bsender[t]
C3_NoIOUnderLock == \A t \in Threads : lock = t => ~AtSocketCall(t)

\* C4: remove_client is idempotent: the first of two successive calls returns
\* the nickname of a registered socket (None otherwise), the second returns
\* None, neither waits for a held lock, and the second leaves the registry as
\* it is.
C4_Results ==
    \A t \in Handles :
        /\ pc[t] = "rc_lock" => lock = NoThread
        /\ Len(rets[t]) >= 1 =>
              rets[t][1] = (IF nickname[rsock[t]] # <<>> THEN nickname[rsock[t]] ELSE None)
        /\ Len(rets[t]) >= 2 => rets[t][2] = None
        /\ Len(rets[t]) <= 2
C4_SecondCallKeepsRegistry ==
    (\E t \in Handles : rret[t] = "stop") => clients' = clients
C4_RemoveIdempotent == []C4_Results /\ [][C4_SecondCallKeepsRegistry]_vars
C4_Witness ==
    \E t \in Handles :
        /\ pc[t] = "done" /\ Len(rets[t]) = 2
        /\ rets[t][1] = alice /\ rets[t][2] = None
        /\ Len(clients) = 2

\* C5: with no client disconnecting, once every accepted connection has
\* completed its handshake the registry holds exactly one entry per client that
\* completed the nickname exchange, under the nickname it gave.
Accepted(h) == pc[h] # "idle"
HandshakeDone(h) == pc[h] \notin {"idle", "nickreq", "nickrecv", "reg_lock", "reg"}
NoDisconnect == \A h \in Handles : ~dead[h] /\ ~Closing(h)
C5_RegistryExact ==
    (NoDisconnect /\ \A h \in Handles : Accepted(h) => HandshakeDone(h)) =>
        /\ Len(clients) = Cardinality({h \in Handles : HandshakeDone(h)})
        /\ Registered = {h \in Handles : HandshakeDone(h)}
        /\ \A h \in Registered : Get(clients, h) = nickname[h]
C5_Witness ==
    /\ NoDisconnect
    /\ \A h \in Arrivals : HandshakeDone(h)
    /\ Len(clients) = 3
    /\ clients[1].sock = 3

\* C8: in every state outside the registry lock and before the shutdown closes
\* sockets, a registered handle has a socket the server has not closed (a
\* socket the server has closed is not registered).
BeforeShutdown == pc[Listener] \in {"accept", "sd_lock"}
C8_NoDeadRegistered ==
    (lock = NoThread /\ BeforeShutdown) =>
        \A h \in Handles : (h \in Registered => ~closed[h]) /\ (closed[h] => h \notin Registered)
C8_Witness ==
    /\ lock = NoThread /\ BeforeShutdown
    /\ \E h \in Handles : closed[h]
    /\ Registered # {}

\* C10: a message that after trimming equals '/quit' in any letter case ends
\* the session and is never rebroadcast: no chat line "[nickname] /quit" in
\* any letter case is handed to broadcast or delivered.
IsQuitLine(msg) ==
    /\ Len(msg) > Len(QuitToken) /\ msg[1] = "["
    /\ msg[Len(msg) - Len(QuitToken) + 1] = QuitToken[1]
    /\ \E h \in Handles :
          LET pre == <<"[">> \o nickname[h] \o <<"]", " ">> IN
          /\ Len(msg) = Len(pre) + Len(QuitToken)
          /\ SubSeq(msg, 1, Len(pre)) = pre
          /\ Lower(SubSeq(msg, Len(pre) + 1, Len(msg))) = QuitToken
IsQuitText(m) == Len(m) = Len(QuitToken) /\ Lower(m) = QuitToken
C10_QuitEndsSession ==
    /\ \A t \in Handles : IsQuitText(message[t]) => Closing(t)
    /\ \A t \in Handles : ~IsQuitLine(bmsg[t])
    /\ \A h \in Handles : \A i \in 1..Len(outbox[h]) : ~IsQuitLine(outbox[h][i])
C10_Witness ==
    \E t \in Handles :
        /\ Lower(message[t]) = QuitToken /\ message[t] # QuitToken
        /\ pc[t] = "done"
        /\ \E h \in Registered : LeaveMsg(nickname[t]) \in Range(outbox[h])

\* The chat line a session broadcasts for the text hello.
HelloLine(a) == FormatMsg(nickname[a], hello)
\* The send to b raised inside a's broadcast: a is in the except clause.
SendRaised(a, b) == pc[a] = "rc_lock" /\ rret[a] = "bc_loop" /\ rsock[a] = b

\* C1: a disconnect during a broadcast does not abort the delivery: when the
\* send to B raises inside A's broadcast(msg, A), C receives msg and B is
\* removed from the registry, eventually.
C1_Raised(a, b, c) ==
    /\ SendRaised(a, b) /\ bsender[a] = a /\ bmsg[a] = HelloLine(a)
    /\ {a, b, c} \subseteq Registered /\ Alive(c)
C1_Done(a, b, c) == HelloLine(a) \in Range(outbox[c]) /\ b \notin Registered
C1_DeliveryNotAborted ==
    \A a, b, c \in Handles :
        (a # b /\ a # c /\ b # c) => (C1_Raised(a, b, c) ~> C1_Done(a, b, c))

\* C6: a delivery failure to one recipient does not affect the sender's own
\* flow: when a send raises inside the broadcast of a chat line, the broadcast
\* returns and the session reads its next message.
C6_SenderGoesOn ==
    \A t \in Handles :
        ((\E b \in Handles : SendRaised(t, b)) /\ bret[t] = "recv") ~> (pc[t] = "recv")

\* C2: broadcast excludes the sender: a chat line read from a registered
\* client A is sent to every other handle that is in the registry when it is
\* broadcast, and is never sent to A itself.
C2_InBroadcast(a, c) ==
    /\ pc[a] = "bc_loop" /\ bsender[a] = a /\ bmsg[a] = HelloLine(a)
    /\ c \in Range(bkeys[a]) /\ c # a
C2_Reached(a, c) == HelloLine(a) \in Range(outbox[c]) \/ dead[c]
C2_AllButSender ==
    /\ [](\A a \in Handles : HelloLine(a) \notin Range(outbox[a]))
    /\ \A a, c \in Handles : C2_InBroadcast(a, c) ~> C2_Reached(a, c)

\* C7: the cleanup of B that a broadcast starts after a failed send to B runs
\* safely beside B's own session handler detecting the disconnect: both calls
\* of remove_client return, B leaves the registry, and exactly one of the two
\* calls obtains B's nickname while the other obtains None.
C7_BothCleaning(a, b) ==
    /\ a # b /\ SendRaised(a, b)
    /\ pc[b] = "rc_lock" /\ rret[b] = "finally" /\ rsock[b] = b
C7_BothReturned(a, b) ==
    /\ b \notin Registered
    /\ rets[a] # <<>> /\ rets[b] # <<>>
    /\ \/ rets[a][Len(rets[a])] = nickname[b] /\ rets[b][1] = None
       \/ rets[a][Len(rets[a])] = None /\ rets[b][1] = nickname[b]
C7_ConcurrentCleanup ==
    \A a, b \in Handles : C7_BothCleaning(a, b) ~> C7_BothReturned(a, b)

\* C9: after a registered client quits, every client that remains registered
\* receives its leave notice and the registry no longer holds it; a chat line
\* reaches the other clients as exactly "[nickname] text".
C9_Quit(q, c) ==
    /\ q # c
    /\ Lower(message[q]) = QuitToken
    /\ pc[q] = "rc_lock" /\ rret[q] = "finally"
    /\ {q, c} \subseteq Registered /\ Alive(c)
C9_Told(q, c) ==
    \/ LeaveMsg(nickname[q]) \in Range(outbox[c]) /\ q \notin Registered
    \/ ~Alive(c)
    \/ Closing(c)
C9_LeaveReachesAll ==
    /\ [](\A a \in Handles : bmsg[a] # <<>> /\ bsender[a] = a =>
            bmsg[a] = <<"[">> \o nickname[a] \o <<"]", " ">> \o message[a])
    /\ \A q, c \in Handles : C9_Quit(q, c) ~> C9_Told(q, c)

\* C11: a client whose handshake payload is empty or only whitespace is
\* registered under the fallback nickname User_<remote port>, is sent the
\* welcome line carrying that nickname, and its session goes on to the
\* registration (Active) instead of being terminated.
BlankHandles == {h \in Handles : \A d \in NickInputs(h) : Strip(d) = <<>>}
C11_Fallback ==
    [h \in Handles |->
        <<"U", "s", "e", "r", "_", "5", "0", "0", "0">> \o <<(<<"1", "2", "3", "4">>)[h]>>]
C11_State ==
    \A h \in BlankHandles :
        /\ nickname[h] \in {<<>>, C11_Fallback[h]}
        /\ (HandshakeDone(h) /\ ~Closing(h)) =>
              h \in Registered /\ Get(clients, h) = C11_Fallback[h]
        /\ (h \in joined /\ ~dead[h]) =>
              WelcomePre \o C11_Fallback[h] \o WelcomePost \in Range(outbox[h])
C11_Step ==
    \A h \in BlankHandles :
        (pc[h] = "nickrecv" /\ pc'[h] # "nickrecv" /\ ~dead[h] /\ ~closed[h]) =>
            /\ pc'[h] = "reg_lock"
            /\ nickname'[h] = C11_Fallback[h]
            /\ rret'[h] # "finally"
C11_BlankNickname == []C11_State /\ [][C11_Step]_vars
C11_Witness ==
    \E h \in BlankHandles :
        /\ pc[h] = "recv" /\ ~dead[h] /\ ~closed[h]
        /\ h \in Registered /\ Get(clients, h) = C11_Fallback[h]
        /\ outbox[h][2] = WelcomeMsg(C11_Fallback[h])

\* C12: in AwaitingNickname a read that is empty because the peer closed the
\* connection moves the session straight to Closing: the session's next step
\* enters the finally block, and a client that sent no nickname is never in
\* the registry nor the subject of a join or leave notice.
C12_Step ==
    \A t \in Handles :
        (pc[t] = "nickrecv" /\ dead[t] /\ pc'[t] # "nickrecv") => rret'[t] = "finally"
C12_SentNoNickname(t) == t \notin BlankHandles /\ nickname[t] = C11_Fallback[t]
C12_State ==
    \A t \in Handles :
        C12_SentNoNickname(t) =>
            /\ t \notin Registered
            /\ \A u \in Handles : bmsg[u] \notin {JoinMsg(nickname[t]), LeaveMsg(nickname[t])}
C12_EmptyReadCloses == [][C12_Step]_vars /\ []C12_State

\* C13: every session terminates cleanly: under fair scheduling a session
\* that has entered Closing (its peer disconnected, sent the quit token, or a
\* read, send or decode failed) eventually ends its thread with its handle
\* absent from the registry and its socket closed.
C13_Closed(t) == pc[t] = "done" /\ t \notin Registered /\ closed[t]
C13_SessionsTerminate == \A t \in Handles : Closing(t) ~> C13_Closed(t)

\* C14: a session's leave notice is broadcast only after its own handle has
\* been removed from the registry and its connection closed, only if the
\* unregister returned a nickname, at most once per session, and never to the
\* leaving client itself.
Count(q, x) == Cardinality({i \in 1..Len(q) : q[i] = x})
C14_Leaving(t) == bret[t] = "done"
C14_ClosingOrder ==
    \A t \in Handles :
        /\ C14_Leaving(t) =>
              /\ t \notin Registered /\ closed[t]
              /\ rets[t] # <<>> /\ rets[t][1] \notin {None, <<>>}
              /\ rets[t][1] = nickname[t]
              /\ bmsg[t] = LeaveMsg(rets[t][1])
        /\ nickname[t] # <<>> =>
              LET leave == LeaveMsg(nickname[t]) IN
              /\ \A u \in Handles \ {t} : bmsg[u] # leave
              /\ \A h \in Handles :
                    /\ Count(outbox[h], leave) <= 1
                    /\ leave \in Range(outbox[h]) => h # t /\ closed[t]
C14_NoLeaveWitness ==
    \E u \in Handles : pc[u] = "done" /\ rets[u] = <<None>> /\ bmsg[u] = <<>>
C14_Witness ==
    \E t \in Handles : \E h \in Handles \ {t} :
        /\ pc[t] = "done" /\ closed[t] /\ t \notin Registered
        /\ h \in Registered
        /\ Count(outbox[h], LeaveMsg(nickname[t])) = 1
        /\ rets[t] = <<nickname[t]>>

\* C15: shutdown completes: once the listener has left its accept loop it
\* eventually closes every connection registered at that time and then the
\* listening socket, whatever the sessions are doing, and accepts no further
\* connection.
C15_Left == pc[Listener] = "sd_lock"
C15_Down ==
    /\ pc[Listener] = "done" /\ ~listening
    /\ \A h \in Registered : closed[h]
C15_ShutdownCompletes == C15_Left ~> C15_Down

\* C16: accept never blocks on a prior session: in every reachable state
\* before shutdown in which a connection is still to arrive, the listener can
\* accept it, whatever the existing sessions are doing (awaiting a nickname,
\* blocked in a read, or waiting for the registry lock).
C16_Pending == \E h \in Arrivals : pc[h] = "idle"
C16_AcceptNeverBlocks ==
    (pc[Listener] = "accept" /\ C16_Pending) => ENABLED (\E h \in Handles : Accept(h))
C16_Witness ==
    \E t \in Handles : \E u \in Handles :
        /\ pc[t] = "rc_lock" /\ lock = t
        /\ pc[u] = "bc_lock"
        /\ C16_Pending
        /\ ENABLED (\E h \in Handles : Accept(h))

\* C17: in the client the first payload sent after NICKNAME_REQUEST is the
\* nickname, in every interleaving of the receive thread and the send loop:
\* the first payload on the connection is the one the receive thread sends in
\* answer to the request, never a line read by the send loop.
C17_FirstPayloadIsNickname ==
    client.sent # <<>> => client.sent[1].by = "R"

\* C18: join and leave notices are paired: whenever a session's leave notice
\* is handed to broadcast, that session's join notice was handed to broadcast
\* before, also when the session fails between its registration and its join
\* notice.
C18_JoinBeforeLeave ==
    \A t \in Handles :
        (bret[t] = "done" /\ bmsg[t] = LeaveMsg(nickname[t])) => t \in joined

\* C19: the welcome line is the first message a client receives after
\* NICKNAME_REQUEST: whatever the other sessions broadcast, the second message
\* sent to a client is its own welcome line.
C19_WelcomeFirst ==
    \A h \in Handles :
        /\ Len(outbox[h]) >= 1 => outbox[h][1] = NICKNAME_REQUEST
        /\ Len(outbox[h]) >= 2 => outbox[h][2] = WelcomeMsg(nickname[h])

\* C20: broadcasts are atomic with respect to each other: any two recipients
\* that are each sent the same two broadcasts are sent them in the same
\* relative order.
Pos(q, x) == CHOOSE i \in 1..Len(q) : q[i] = x
C20_SentOnce(h) == {m \in Range(outbox[h]) : Count(outbox[h], m) = 1}
C20_SameOrder ==
    \A a \in Handles : \A b \in Handles \ {a} :
        \A m1 \in C20_SentOnce(a) \cap C20_SentOnce(b) :
        \A m2 \in (C20_SentOnce(a) \cap C20_SentOnce(b)) \ {m1} :
            Pos(outbox[a], m1) < Pos(outbox[a], m2) =>
                Pos(outbox[b], m1) < Pos(outbox[b], m2)
C20_Witness ==
    \E s1 \in Handles : \E s2 \in Handles \ {s1} :
    \E a \in Handles \ {s1, s2} : \E b \in Handles \ {s1, s2, a} :
        /\ {HelloLine(s1), HelloLine(s2)} \subseteq C20_SentOnce(a) \cap C20_SentOnce(b)
        /\ Pos(outbox[a], HelloLine(s1)) < Pos(outbox[a], HelloLine(s2))
        /\ Pos(outbox[b], HelloLine(s1)) < Pos(outbox[b], HelloLine(s2))

====
